---- MODULE Spec2Model ----
(***************************************************************************)
(* Model of the komodo-codex-env `setup` command: the CLI entry point      *)
(* (cli.py), the phase orchestrator EnvironmentSetup.run_setup (setup.py)  *)
(* and the documentation phase (documentation_manager.py).                 *)
(*                                                                         *)
(* Manager calls (install_flutter, install_android_sdk, ...) are the       *)
(* environment: each returns True, returns False or raises an Exception.   *)
(* The asyncio event loop is modelled by a FIFO ready queue and the task   *)
(* that currently holds the loop thread; run_in_executor is a pool thread  *)
(* that runs beside the loop.                                              *)
(***************************************************************************)
EXTENDS Integers, Sequences, FiniteSets, TLC

VARIABLES
    env,            \* process environment read by EnvironmentConfig.from_environment
    cli,            \* options given to the `setup` command
    config,         \* the EnvironmentConfig record
    pc,             \* position of the main control flow (cli.setup / run_setup)
    started,        \* phases of run_setup in the order they were entered
    phase_result,   \* per phase: "none", or what the phase coroutine produced
    calls,          \* number of invocations of each mocked manager operation
    ret,            \* outcome of the last invocation of each manager operation
    task_state,     \* parallel mode: state of the two tasks handed to gather
    task_result,    \* parallel mode: results[0], results[1] of gather
    ready,          \* event loop ready queue (FIFO of task names)
    running,        \* task holding the event loop thread, or "none"
    android_thread, \* run_in_executor thread running install_android_sdk
    flutter_at_android_start, \* state of the Flutter work when install_android_sdk started
    fetch_started,  \* documentation sources for which an HTTP fetch task was created
    documents,      \* names in the dict returned by fetch_all_documentation
    files_written,  \* documentation files written below initial_dir
    summary_printed,\* _print_completion_summary ran to completion
    run_outcome,    \* how asyncio.run(run_setup()) ended
    exit_code,      \* the statuses passed to sys.exit: empty while the process runs
    fm,             \* FlutterManager.install_flutter called on its own
    sd,             \* _setup_system_dependencies called on its own
    am,             \* AndroidManager operations called on their own
    fd,             \* the `fetch-docs` command
    jm,             \* a JobManager and the tasks of its jobs
    pj,             \* _setup_project as run_setup's last phase, on its own
    fa,             \* _setup_flutter_and_android run in both modes on the same mocks
    cf              \* the `setup` command up to the finished configuration

vars == <<env, cli, config, pc, started, phase_result, calls, ret, task_state,
          task_result, ready, running, android_thread, flutter_at_android_start,
          fetch_started, documents, files_written, summary_printed,
          run_outcome, exit_code, fm, sd, am, fd, jm, pj, fa, cf>>

\* the variables of the components that are also exercised on their own,
\* outside the `setup` command
Others == <<fm, sd, am, fd, jm, pj, fa, cf>>

\* a component that is not exercised
Idle == [pc |-> "idle"]

----------------------------------------------------------------------------
(* Input domains *)

InstallTypes == {"ALL", "KW", "KDF", "KDF-SDK"}

\* --platforms values tried by the model
PlatformChoices == {<<"web">>, <<"web", "android">>}

\* what a manager call can do: return True, return False, raise an Exception
Outcomes == {"True", "False", "Raise"}

\* what one _fetch_document call can produce
FetchOutcomes == {"content", "empty", "error"}

----------------------------------------------------------------------------
(* config.py / cli.py: building the configuration *)

\* the element set of a Python list
ListElems(s) == {s[i] : i \in 1..Len(s)}

\* dataclass defaults of EnvironmentConfig
EnvironmentConfig ==
    [ install_type              |-> "ALL",
      parallel_execution        |-> TRUE,
      platforms                 |-> <<"web">>,
      install_android_sdk       |-> TRUE,
      should_fetch_agents_docs  |-> TRUE,
      should_fetch_kdf_api_docs |-> FALSE ]

\* values of an environment variable tried by the model
EnvValues == {"unset", "false"}

\* os.getenv(name, default).lower() == "true"
getenv_bool(v, default) ==
    LET s == IF v = "unset" THEN default ELSE v
    IN  s \in {"true", "True", "TRUE"}

\* EnvironmentConfig.from_environment: only INSTALL_ANDROID_SDK has no CLI
\* override in `setup`, the other variables are overwritten by cli_override
from_environment(e) ==
    [ EnvironmentConfig EXCEPT
        !.install_android_sdk = getenv_bool(e.INSTALL_ANDROID_SDK, "true") ]

\* cli.setup: "Override with command line options"
cli_override(c, o) ==
    [ c EXCEPT !.install_type              = o.install_type,
               !.parallel_execution        = ~o.no_parallel,
               !.platforms                 = o.platforms,
               !.should_fetch_agents_docs  = ~o.no_docs,
               !.should_fetch_kdf_api_docs = o.kdf_docs ]

----------------------------------------------------------------------------
(* setup.py: run_setup phase table *)

PhaseOrder ==
    << "system_dependencies", "git_operations", "flutter_and_android",
       "environment", "documentation", "kdf_dependencies", "project" >>

Phases == ListElems(PhaseOrder)

PhaseIndex(p) == CHOOSE i \in 1..Len(PhaseOrder) : PhaseOrder[i] = p

\* mutant: the environment phase is also run for KDF-SDK
PhaseEnabled_env_for_kdf_sdk(p, t) ==
    CASE p = "flutter_and_android" -> t \in {"ALL", "KW", "KDF-SDK"}
      [] p = "environment"         -> t \in {"ALL", "KW", "KDF-SDK"}
      [] p = "kdf_dependencies"    -> t \in {"ALL", "KDF", "KDF-SDK"}
      [] p = "project"             -> t \in {"ALL", "KW"}
      [] OTHER                     -> TRUE

\* the `if self.config.install_type in (...)` guards of run_setup
PhaseEnabled(p, t) ==
    CASE p = "flutter_and_android" -> t \in {"ALL", "KW", "KDF-SDK"}
      [] p = "environment"         -> t \in {"ALL", "KW"}
      [] p = "kdf_dependencies"    -> t \in {"ALL", "KDF", "KDF-SDK"}
      [] p = "project"             -> t \in {"ALL", "KW"}
      [] OTHER                     -> TRUE

\* mutant: control jumps to the last enabled phase instead of the next one
AfterPhase_jumps_to_last(i, t) ==
    LET later == {j \in (i+1)..Len(PhaseOrder) : PhaseEnabled(PhaseOrder[j], t)}
    IN  IF later = {} THEN "summary"
        ELSE PhaseOrder[CHOOSE j \in later : \A k \in later : j >= k]

\* the statement run_setup reaches after phase number i: the next phase whose
\* guard holds, or the completion summary
AfterPhase(i, t) ==
    LET later == {j \in (i+1)..Len(PhaseOrder) : PhaseEnabled(PhaseOrder[j], t)}
    IN  IF later = {} THEN "summary"
        ELSE PhaseOrder[CHOOSE j \in later : \A k \in later : j <= k]

\* a variant of FatalPhases in which only the first phase's result is tested
FatalPhases_first_phase_only == {"system_dependencies"}

\* phases whose False result makes run_setup return False; the result of
\* _setup_git_operations is not tested
FatalPhases == Phases \ {"git_operations"}

\* mutant: run_setup without its `except Exception` handler
run_setup_on_uncaught(p, r) ==
    CASE r = "Raise"                         -> "Exception"
      [] r = "False" /\ p \in FatalPhases    -> "False"
      [] OTHER                               -> "continue"

\* what run_setup does with the outcome r of phase p:
\* "continue", or the value it returns
run_setup_on(p, r) ==
    CASE r = "Raise"                         -> "False"   \* except Exception
      [] r = "False" /\ p \in FatalPhases    -> "False"   \* if not await ...: return False
      [] OTHER                               -> "continue"

\* mutant: Ctrl-C is reported like any other error
ExitCode_interrupt_as_error(outcome) ==
    CASE outcome = "True"              -> 0
      [] outcome = "False"             -> 1
      [] outcome = "KeyboardInterrupt" -> 1
      [] outcome = "Exception"         -> 1

\* cli.setup: the status given to sys.exit for each way asyncio.run can end
ExitCode(outcome) ==
    CASE outcome = "True"              -> 0
      [] outcome = "False"             -> 1
      [] outcome = "KeyboardInterrupt" -> 130
      [] outcome = "Exception"         -> 1

\* mutant: the platforms test is missing
AndroidRequested_ignores_platforms(c) == c.install_android_sdk

\* both skip tests of setup_android / _setup_android_sequential pass
AndroidRequested(c) ==
    c.install_android_sdk /\ "android" \in ListElems(c.platforms)

----------------------------------------------------------------------------
(* documentation_manager.py *)

\* DocumentationManager.doc_sources, in dict order
doc_sources ==
    << "agents", "bloc_conventions", "bloc_modeling", "bloc_testing",
       "bloc_concepts", "commit_conventions", "kdf_api" >>

\* a variant of requested_sources that leaves out the two skip tests
requested_sources_unfiltered(c) == ListElems(doc_sources)

\* the sources fetch_all_documentation creates a fetch task for
requested_sources(c) ==
    { n \in ListElems(doc_sources) :
        /\ ~(n = "kdf_api" /\ ~c.should_fetch_kdf_api_docs)
        /\ ~(n = "agents" /\ ~c.should_fetch_agents_docs) }

\* position of a source in dict order
SourceIndex(n) == CHOOSE i \in 1..Len(doc_sources) : doc_sources[i] = n

\* save_documentation writes the documents in dict order; a failure while
\* handling document number k (of the saved ones) leaves the earlier ones on disk
written_before(docs, k) ==
    { n \in docs : Cardinality({m \in docs : SourceIndex(m) < SourceIndex(n)}) < k - 1 }

----------------------------------------------------------------------------
(* Initial state: the process has been started with some environment and   *)
(* some command line; nothing has run yet.                                 *)

ManagerOps == {"install_flutter", "configure_flutter", "install_android_sdk"}
TaskNames  == {"flutter", "android"}

Init ==
    /\ env \in [INSTALL_ANDROID_SDK : EnvValues]
    /\ cli \in [ install_type : InstallTypes,
                 no_parallel  : BOOLEAN,
                 platforms    : PlatformChoices,
                 no_docs      : BOOLEAN,
                 kdf_docs     : BOOLEAN ]
    /\ config = EnvironmentConfig
    /\ pc = <<"cli", "setup">>
    /\ started = << >>
    /\ phase_result = [p \in Phases |-> "none"]
    /\ calls = [o \in ManagerOps |-> 0]
    /\ ret = [o \in ManagerOps |-> "none"]
    /\ task_state = [t \in TaskNames |-> "none"]
    /\ task_result = [t \in TaskNames |-> "none"]
    /\ ready = << >>
    /\ running = "main"
    /\ android_thread = "idle"
    /\ flutter_at_android_start = "none"
    /\ fetch_started = {}
    /\ documents = {}
    /\ files_written = {}
    /\ summary_printed = FALSE
    /\ run_outcome = "none"
    /\ exit_code = << >>
    /\ fm = Idle /\ sd = Idle /\ am = Idle /\ fd = Idle /\ jm = Idle /\ pj = Idle
    /\ fa = Idle /\ cf = Idle

\* the `setup` command not started: the state of its variables while another
\* component is exercised on its own
SetupIdle ==
    /\ env = [INSTALL_ANDROID_SDK |-> "unset"]
    /\ cli = [ install_type |-> "ALL", no_parallel |-> FALSE,
               platforms |-> <<"web">>, no_docs |-> FALSE, kdf_docs |-> FALSE ]
    /\ config = EnvironmentConfig
    /\ pc = <<"cli", "setup">>
    /\ started = << >>
    /\ phase_result = [p \in Phases |-> "none"]
    /\ calls = [o \in ManagerOps |-> 0]
    /\ ret = [o \in ManagerOps |-> "none"]
    /\ task_state = [t \in TaskNames |-> "none"]
    /\ task_result = [t \in TaskNames |-> "none"]
    /\ ready = << >>
    /\ running = "main"
    /\ android_thread = "idle"
    /\ flutter_at_android_start = "none"
    /\ fetch_started = {}
    /\ documents = {}
    /\ files_written = {}
    /\ summary_printed = FALSE
    /\ run_outcome = "none"
    /\ exit_code = << >>

SetupVars == <<env, cli, config, pc, started, phase_result, calls, ret,
               task_state, task_result, ready, running, android_thread,
               flutter_at_android_start, fetch_started, documents,
               files_written, summary_printed, run_outcome, exit_code>>

----------------------------------------------------------------------------
(* Shared pieces of the actions *)

FlutterVars == <<calls, ret, task_state, task_result, ready, running,
                 android_thread, flutter_at_android_start>>
DocVars     == <<fetch_started, documents, files_written>>
ConfigVars  == <<env, cli, config>>

\* asyncio.run(run_setup()) ends with outcome o and cli.setup calls sys.exit
EndRun(o) ==
    /\ pc' = <<"exit", "done">>
    /\ run_outcome' = o
    /\ exit_code' = Append(exit_code, ExitCode(o))

\* run_setup enters phase p
EnterPhase(p) ==
    /\ pc = <<p, "enter">>
    /\ started' = Append(started, p)

\* phase p produced r: run_setup goes on to the next statement or returns
FinishPhase(p, r) ==
    /\ phase_result' = [phase_result EXCEPT ![p] = r]
    /\ LET d == run_setup_on(p, r)
           n == AfterPhase(PhaseIndex(p), config.install_type)
       IN  IF d = "continue"
           THEN /\ pc' = IF n = "summary" THEN <<"run_setup", "summary">>
                                          ELSE <<n, "enter">>
                /\ UNCHANGED <<run_outcome, exit_code>>
           ELSE EndRun(d)

\* a phase without modelled internals: entered in one step, finished in another
PhaseBegin(p) ==
    /\ EnterPhase(p)
    /\ pc' = <<p, "body">>
    /\ UNCHANGED <<Others, ConfigVars, phase_result, FlutterVars, DocVars,
                   summary_printed, run_outcome, exit_code>>

PhaseEnd(p, outcomes) ==
    /\ pc = <<p, "body">>
    /\ \E r \in outcomes : FinishPhase(p, r)
    /\ UNCHANGED <<Others, ConfigVars, started, FlutterVars, DocVars, summary_printed>>

----------------------------------------------------------------------------
(* cli.py: the setup command *)

\* cli.setup lines 61-88: build the configuration, construct EnvironmentSetup
setup ==
    /\ pc = <<"cli", "setup">>
    /\ config' = cli_override(from_environment(env), cli)
    /\ pc' = <<"run_setup", "banner">>
    /\ UNCHANGED <<Others, env, cli, started, phase_result, FlutterVars, DocVars,
                   summary_printed, run_outcome, exit_code>>

\* run_setup lines 44-48: the banner is printed outside the try block, so an
\* exception raised here escapes run_setup and asyncio.run
run_setup_banner ==
    /\ pc = <<"run_setup", "banner">>
    /\ \/ /\ pc' = <<AfterPhase(0, config.install_type), "enter">>
          /\ UNCHANGED <<run_outcome, exit_code>>
       \/ EndRun("Exception")
    /\ UNCHANGED <<Others, ConfigVars, started, phase_result, FlutterVars, DocVars,
                   summary_printed>>

\* Ctrl-C while asyncio.run is executing run_setup: KeyboardInterrupt (and the
\* CancelledError asyncio.run turns it into) is not an Exception, so no handler
\* of setup.py catches it; asyncio.run raises KeyboardInterrupt and cli.setup
\* exits with 130. The run is taken to end at the interrupt.
KeyboardInterrupt ==
    /\ pc[1] \notin {"cli", "exit"}
    /\ EndRun("KeyboardInterrupt")
    /\ UNCHANGED <<Others, ConfigVars, started, phase_result, FlutterVars, DocVars,
                   summary_printed>>

----------------------------------------------------------------------------
(* setup.py: phases 1, 2, 4, 6, 7 and the completion summary *)

setup_system_dependencies_begin == PhaseBegin("system_dependencies")
setup_system_dependencies_end   == PhaseEnd("system_dependencies", Outcomes)

\* _setup_git_operations has no path that returns False
setup_git_operations_begin == PhaseBegin("git_operations")
setup_git_operations_end   == PhaseEnd("git_operations", {"True", "Raise"})

\* _setup_environment has no path that returns False
setup_environment_begin == PhaseBegin("environment")
setup_environment_end   == PhaseEnd("environment", {"True", "Raise"})

setup_kdf_dependencies_begin == PhaseBegin("kdf_dependencies")
setup_kdf_dependencies_end   == PhaseEnd("kdf_dependencies", Outcomes)

setup_project_begin == PhaseBegin("project")
setup_project_end   == PhaseEnd("project", Outcomes)

\* _print_completion_summary, then `return True`; it runs inside the try block
print_completion_summary ==
    /\ pc = <<"run_setup", "summary">>
    /\ \/ summary_printed' = TRUE /\ EndRun("True")
       \/ summary_printed' = FALSE /\ EndRun("False")
    /\ UNCHANGED <<Others, ConfigVars, started, phase_result, FlutterVars, DocVars>>

----------------------------------------------------------------------------
(* setup.py: phase 3, _setup_flutter_and_android *)

P3 == "flutter_and_android"

\* order in which the coroutines are appended to `tasks`; gather wraps them
\* into tasks in this order and the loop starts them first-in first-out
gather_schedule == << "flutter", "android" >>

\* mutant: the result of install_flutter is not tested
setup_flutter_after_install_unchecked(r) ==
    IF r = "Raise" THEN "Raise" ELSE "configure"

\* setup_flutter (parallel mode) after install_flutter produced r
setup_flutter_after_install(r) ==
    CASE r = "True"  -> "configure"
      [] r = "False" -> "False"      \* if not success: return False
      [] r = "Raise" -> "Raise"

\* setup_flutter (parallel mode) after configure_flutter produced r:
\* both branches of `if success` fall through to `return True`
setup_flutter_after_configure(r) ==
    IF r = "Raise" THEN "Raise" ELSE "True"

\* setup_android (parallel mode) after install_android_sdk produced r
setup_android_after_install(r) == r

\* lines 194-205: the value returned after gather(..., return_exceptions=True)
parallel_phase_result(results) ==
    LET flutter_success ==
            IF results["flutter"] = "Raise" THEN "False" ELSE results["flutter"]
    IN  IF flutter_success = "True" THEN "True" ELSE "False"

\* mutant: gather without return_exceptions=True, the first exception ends it
gather_done_first_exception(ts) ==
    \/ \A t \in TaskNames : ts[t] = "done"
    \/ \E t \in TaskNames : ts[t] = "done" /\ task_result[t] = "Raise"

\* gather(*tasks, return_exceptions=True) is done when every task is done
gather_done(ts) == \A t \in TaskNames : ts[t] = "done"

\* _setup_flutter_sequential after install_flutter produced r
setup_flutter_sequential_after_install(r) ==
    CASE r = "True"  -> "configure"
      [] r = "False" -> "False"
      [] r = "Raise" -> "Raise"

\* _setup_flutter_sequential after configure_flutter produced r
setup_flutter_sequential_after_configure(r) ==
    IF r = "Raise" THEN "Raise" ELSE "True"

\* lines 212-215 after `await self._setup_android_sequential()` produced r:
\* the returned value is dropped, an exception is not caught here
sequential_after_android(r) ==
    IF r = "Raise" THEN "Raise" ELSE "True"

Call(op, r) ==
    /\ calls' = [calls EXCEPT ![op] = @ + 1]
    /\ ret' = [ret EXCEPT ![op] = r]

setup_flutter_and_android_begin ==
    /\ EnterPhase(P3)
    /\ IF config.parallel_execution
       THEN /\ task_state' = [t \in TaskNames |-> "scheduled"]
            /\ ready' = gather_schedule
            /\ running' = "none"            \* the main task awaits gather
            /\ pc' = <<P3, "gather">>
       ELSE /\ pc' = <<P3, "install_flutter">>
            /\ UNCHANGED <<task_state, ready, running>>
    /\ UNCHANGED <<Others, ConfigVars, phase_result, calls, ret, task_result,
                   android_thread, flutter_at_android_start, DocVars,
                   summary_printed, run_outcome, exit_code>>

\* the loop runs the task at the head of the ready queue when no task holds it
LoopPicks(t) ==
    /\ pc = <<P3, "gather">>
    /\ running = "none"
    /\ ready # << >>
    /\ Head(ready) = t

\* setup_flutter up to the return of install_flutter; install_flutter is a plain
\* blocking call, the task keeps the loop thread
flutter_task_install ==
    /\ LoopPicks("flutter")
    /\ task_state["flutter"] = "scheduled"
    /\ ready' = Tail(ready)
    /\ \E r \in Outcomes :
        /\ Call("install_flutter", r)
        /\ LET a == setup_flutter_after_install(r)
           IN  IF a = "configure"
               THEN /\ running' = "flutter"
                    /\ task_state' = [task_state EXCEPT !["flutter"] = "installed"]
                    /\ UNCHANGED task_result
               ELSE /\ running' = "none"
                    /\ task_state' = [task_state EXCEPT !["flutter"] = "done"]
                    /\ task_result' = [task_result EXCEPT !["flutter"] = a]
    /\ UNCHANGED <<Others, ConfigVars, pc, started, phase_result, android_thread,
                   flutter_at_android_start, DocVars, summary_printed,
                   run_outcome, exit_code>>

\* setup_flutter from configure_flutter to its return
flutter_task_configure ==
    /\ pc = <<P3, "gather">>
    /\ running = "flutter"
    /\ task_state["flutter"] = "installed"
    /\ \E r \in Outcomes :
        /\ Call("configure_flutter", r)
        /\ task_result' = [task_result EXCEPT
                              !["flutter"] = setup_flutter_after_configure(r)]
    /\ task_state' = [task_state EXCEPT !["flutter"] = "done"]
    /\ running' = "none"
    /\ UNCHANGED <<Others, ConfigVars, pc, started, phase_result, ready, android_thread,
                   flutter_at_android_start, DocVars, summary_printed,
                   run_outcome, exit_code>>

\* setup_android up to `await loop.run_in_executor(...)`, or to its early return
android_task_start ==
    /\ LoopPicks("android")
    /\ task_state["android"] = "scheduled"
    /\ ready' = Tail(ready)
    /\ IF AndroidRequested(config)
       THEN /\ android_thread' = "running"
            /\ calls' = [calls EXCEPT !["install_android_sdk"] = @ + 1]
            /\ flutter_at_android_start' = task_state["flutter"]
            /\ task_state' = [task_state EXCEPT !["android"] = "awaiting"]
            /\ UNCHANGED task_result
       ELSE /\ task_state' = [task_state EXCEPT !["android"] = "done"]
            /\ task_result' = [task_result EXCEPT !["android"] = "True"]
            /\ UNCHANGED <<android_thread, calls, flutter_at_android_start>>
    /\ UNCHANGED <<Others, ConfigVars, pc, started, phase_result, ret, running, DocVars,
                   summary_printed, run_outcome, exit_code>>

\* the pool thread finishes install_android_sdk; in parallel mode the future's
\* callback puts the awaiting task back on the ready queue
android_thread_finish ==
    /\ android_thread = "running"
    /\ pc[1] = P3
    /\ android_thread' = "finished"
    /\ \E r \in Outcomes : ret' = [ret EXCEPT !["install_android_sdk"] = r]
    /\ ready' = IF task_state["android"] = "awaiting"
                THEN Append(ready, "android") ELSE ready
    /\ UNCHANGED <<Others, ConfigVars, pc, started, phase_result, calls, task_state,
                   task_result, running, flutter_at_android_start, DocVars,
                   summary_printed, run_outcome, exit_code>>

\* setup_android after the await
android_task_resume ==
    /\ LoopPicks("android")
    /\ task_state["android"] = "awaiting"
    /\ android_thread = "finished"
    /\ ready' = Tail(ready)
    /\ task_state' = [task_state EXCEPT !["android"] = "done"]
    /\ task_result' = [task_result EXCEPT
           !["android"] = setup_android_after_install(ret["install_android_sdk"])]
    /\ UNCHANGED <<Others, ConfigVars, pc, started, phase_result, calls, ret, running,
                   android_thread, flutter_at_android_start, DocVars,
                   summary_printed, run_outcome, exit_code>>

\* gather completes, lines 193-205 compute the phase result
setup_flutter_and_android_gathered ==
    /\ pc = <<P3, "gather">>
    /\ running = "none"
    /\ gather_done(task_state)
    /\ running' = "main"
    /\ FinishPhase(P3, parallel_phase_result(task_result))
    /\ UNCHANGED <<Others, ConfigVars, started, calls, ret, task_state, task_result,
                   ready, android_thread, flutter_at_android_start, DocVars,
                   summary_printed>>

\* sequential mode: _setup_flutter_sequential, install part
sequential_install_flutter ==
    /\ pc = <<P3, "install_flutter">>
    /\ \E r \in Outcomes :
        /\ Call("install_flutter", r)
        /\ LET a == setup_flutter_sequential_after_install(r)
           IN  IF a = "configure"
               THEN /\ pc' = <<P3, "configure_flutter">>
                    /\ UNCHANGED <<phase_result, run_outcome, exit_code>>
               ELSE FinishPhase(P3, a)
    /\ UNCHANGED <<Others, ConfigVars, started, task_state, task_result, ready, running,
                   android_thread, flutter_at_android_start, DocVars,
                   summary_printed>>

\* sequential mode: _setup_flutter_sequential, configure part
sequential_configure_flutter ==
    /\ pc = <<P3, "configure_flutter">>
    /\ \E r \in Outcomes :
        /\ Call("configure_flutter", r)
        /\ LET a == setup_flutter_sequential_after_configure(r)
           IN  IF a = "True"
               THEN /\ pc' = <<P3, "android">>
                    /\ UNCHANGED <<phase_result, run_outcome, exit_code>>
               ELSE FinishPhase(P3, a)
    /\ UNCHANGED <<Others, ConfigVars, started, task_state, task_result, ready, running,
                   android_thread, flutter_at_android_start, DocVars,
                   summary_printed>>

\* sequential mode: _setup_android_sequential up to the await or early return
sequential_android_start ==
    /\ pc = <<P3, "android">>
    /\ IF AndroidRequested(config)
       THEN /\ android_thread' = "running"
            /\ calls' = [calls EXCEPT !["install_android_sdk"] = @ + 1]
            /\ flutter_at_android_start' = "done"
            /\ pc' = <<P3, "android_wait">>
            /\ UNCHANGED <<phase_result, run_outcome, exit_code>>
       ELSE /\ FinishPhase(P3, sequential_after_android("True"))
            /\ UNCHANGED <<android_thread, calls, flutter_at_android_start>>
    /\ UNCHANGED <<Others, ConfigVars, started, ret, task_state, task_result, ready,
                   running, DocVars, summary_printed>>

\* sequential mode: after the await, lines 250-254 and 212-215
sequential_android_resume ==
    /\ pc = <<P3, "android_wait">>
    /\ android_thread = "finished"
    /\ FinishPhase(P3, sequential_after_android(ret["install_android_sdk"]))
    /\ UNCHANGED <<Others, ConfigVars, started, FlutterVars, DocVars, summary_printed>>

----------------------------------------------------------------------------
(* setup.py: phase 5, _setup_documentation *)

DOC == "documentation"

\* fetch_all_documentation creates one fetch task per requested source
setup_documentation_begin ==
    /\ EnterPhase(DOC)
    /\ fetch_started' = requested_sources(config)
    /\ pc' = <<DOC, "gather">>
    /\ UNCHANGED <<Others, ConfigVars, phase_result, FlutterVars, documents,
                   files_written, summary_printed, run_outcome, exit_code>>

\* the dict built from the fetch results: a source is kept when its fetch
\* returned non-empty content
fetched_documents(out) == { n \in DOMAIN out : out[n] = "content" }

\* the rest of _setup_documentation: the fetches end, the documents are saved
setup_documentation_end ==
    /\ pc = <<DOC, "gather">>
    /\ \E out \in [fetch_started -> FetchOutcomes] :
        LET docs == fetched_documents(out) IN
        /\ documents' = docs
        /\ IF docs = {}
           THEN \* "No documentation was fetched"
                /\ files_written' = files_written
                /\ FinishPhase(DOC, "True")
           ELSE \/ \* target_dir missing: success stays False
                   /\ files_written' = files_written
                   /\ FinishPhase(DOC, "False")
                \/ \* save_documentation fails at the k-th document
                   \E k \in 1..Cardinality(docs) :
                       /\ files_written' = files_written \cup written_before(docs, k)
                       /\ FinishPhase(DOC, "False")
                \/ \* save_documentation succeeds; the combined file is
                   \* written when there is an "agents" document, unless that fails
                   /\ \E combined \in BOOLEAN :
                        files_written' = files_written \cup docs \cup
                            (IF combined /\ "agents" \in docs
                             THEN {"combined"} ELSE {})
                   /\ FinishPhase(DOC, "True")
    /\ UNCHANGED <<Others, ConfigVars, started, FlutterVars, fetch_started,
                   summary_printed>>

----------------------------------------------------------------------------
Next ==
    \/ setup
    \/ run_setup_banner
    \/ KeyboardInterrupt
    \/ setup_system_dependencies_begin
    \/ setup_system_dependencies_end
    \/ setup_git_operations_begin
    \/ setup_git_operations_end
    \/ setup_flutter_and_android_begin
    \/ flutter_task_install
    \/ flutter_task_configure
    \/ android_task_start
    \/ android_thread_finish
    \/ android_task_resume
    \/ setup_flutter_and_android_gathered
    \/ sequential_install_flutter
    \/ sequential_configure_flutter
    \/ sequential_android_start
    \/ sequential_android_resume
    \/ setup_environment_begin
    \/ setup_environment_end
    \/ setup_documentation_begin
    \/ setup_documentation_end
    \/ setup_kdf_dependencies_begin
    \/ setup_kdf_dependencies_end
    \/ setup_project_begin
    \/ setup_project_end
    \/ print_completion_summary

Spec == Init /\ [][Next]_vars

----------------------------------------------------------------------------
(* flutter_manager.py: FlutterManager.install_flutter, called on its own   *)
(* (as tests/unit/test_system_deps.py does). The environment's behaviour   *)
(* is drawn in the initial state: whether FVM can be had, what `df -k`     *)
(* prints, how `fvm install` and `fvm global` end, whether the installed   *)
(* Flutter verifies.                                                       *)

\* 1 GB in KB, as check_disk_space converts: available_kb / (1024 * 1024)
KBPerGB == 1024 * 1024

\* free space values (KB) of the second line of the df output tried by the
\* model: nothing, just below 1.5 GB, exactly 1.5 GB, 4 GB
DiskKB == {0, (3 * KBPerGB) \div 2 - 1, (3 * KBPerGB) \div 2, 4 * KBPerGB}

\* what `df -k <path>` can do: fail, print a header only, print a data line
DfOutputs ==
    {[kind |-> "error"], [kind |-> "header_only"]}
        \cup {[kind |-> "lines", available_kb |-> k] : k \in DiskKB}

\* DependencyManager.check_disk_space(required_gb, path) with
\* required_gb = num / den: True when the check itself fails, False when df
\* prints fewer than two lines
check_disk_space(num, den, df) ==
    CASE df.kind = "error"       -> TRUE
      [] df.kind = "header_only" -> FALSE
      [] df.kind = "lines"       -> df.available_kb * den >= num * KBPerGB

\* how a command run through CommandExecutor.run_command(check=False) ends
CommandEnds == {"0", "1", "timeout"}

\* mutant: the disk space test does not return
install_flutter_after_disk_check_unchecked(ok) == "fvm_install"

\* install_flutter lines 296-299: `if not check_disk_space(1.5, ...): return False`
install_flutter_after_disk_check(ok) ==
    IF ok THEN "fvm_install" ELSE "False"

\* install_flutter after `fvm install <version>` ended with e: a timeout
\* raises inside the try block
install_flutter_after_fvm_install(e) ==
    IF e = "0" THEN "fvm_global" ELSE "False"

InitFlutter ==
    /\ SetupIdle
    /\ sd = Idle /\ am = Idle /\ fd = Idle /\ jm = Idle /\ pj = Idle
    /\ fa = Idle /\ cf = Idle
    /\ fm \in [ pc            : {"install_fvm"},
                fvm_available : BOOLEAN,
                df            : DfOutputs,
                fvm_install   : CommandEnds,
                fvm_global    : CommandEnds,
                verified      : BOOLEAN,
                disk_ok       : {"none"},
                commands      : {<< >>},
                result        : {"none"} ]

FlutterFrame == UNCHANGED <<SetupVars, sd, am, fd, jm, pj, fa, cf>>

FmReturn(r) == [fm EXCEPT !.pc = "done", !.result = r]

\* lines 291-294: `if not self.install_fvm(): return False`
fm_install_fvm ==
    /\ fm.pc = "install_fvm"
    /\ fm' = IF fm.fvm_available THEN [fm EXCEPT !.pc = "check_disk_space"]
             ELSE FmReturn("False")
    /\ FlutterFrame

\* lines 296-299
fm_check_disk_space ==
    /\ fm.pc = "check_disk_space"
    /\ LET ok == check_disk_space(3, 2, fm.df)
           a  == install_flutter_after_disk_check(ok)
           f  == [fm EXCEPT !.disk_ok = IF ok THEN "True" ELSE "False",
                            !.commands = Append(@, "df -k")]
       IN  fm' = IF a = "fvm_install" THEN [f EXCEPT !.pc = "fvm_install"]
                 ELSE [f EXCEPT !.pc = "done", !.result = a]
    /\ FlutterFrame

\* lines 305-329: `fvm install <version>`
fm_fvm_install ==
    /\ fm.pc = "fvm_install"
    /\ LET a == install_flutter_after_fvm_install(fm.fvm_install)
           f == [fm EXCEPT !.commands = Append(@, "fvm install")]
       IN  fm' = IF a = "fvm_global" THEN [f EXCEPT !.pc = "fvm_global"]
                 ELSE [f EXCEPT !.pc = "done", !.result = a]
    /\ FlutterFrame

\* lines 330-341: `fvm global <version>`; a non-zero exit is a warning, a
\* raised exception ends in the except clause
fm_fvm_global ==
    /\ fm.pc = "fvm_global"
    /\ LET f == [fm EXCEPT !.commands = Append(@, "fvm global")]
       IN  fm' = IF fm.fvm_global = "timeout"
                 THEN [f EXCEPT !.pc = "done", !.result = "False"]
                 ELSE [f EXCEPT !.pc = "verify"]
    /\ FlutterFrame

\* lines 343-351: is_flutter_installed decides the result
fm_verify ==
    /\ fm.pc = "verify"
    /\ fm' = FmReturn(IF fm.verified THEN "True" ELSE "False")
    /\ FlutterFrame

NextFlutter ==
    \/ fm_install_fvm
    \/ fm_check_disk_space
    \/ fm_fvm_install
    \/ fm_fvm_global
    \/ fm_verify

SpecFlutter == InitFlutter /\ [][NextFlutter]_vars

----------------------------------------------------------------------------
(* setup.py: _setup_system_dependencies, called on its own with a mocked   *)
(* DependencyManager.install_dependencies                                  *)

\* what `uname -s` reports; "unknown" when the command fails
OsNames == {"Linux", "Darwin", "unknown"}

\* config.platforms values tried by the model
SdPlatformChoices ==
    { <<"web">>, <<"android">>, <<"linux">>, <<"web", "android">>,
      <<"android", "web">>, <<"web", "linux">> }

\* the list handed to install_dependencies: the platform agnostic names and,
\* on Linux, two more; config.platforms is not consulted
required_deps(os, platforms) ==
    << "curl", "git", "unzip", "xz-utils", "zip" >> \o
        (IF os = "Linux" THEN << "libglu1-mesa", "build-essential" >> ELSE << >>)

InitDeps ==
    /\ SetupIdle
    /\ fm = Idle /\ am = Idle /\ fd = Idle /\ jm = Idle /\ pj = Idle
    /\ fa = Idle /\ cf = Idle
    /\ sd \in [ pc        : {"get_system_info"},
                os        : OsNames,
                platforms : SdPlatformChoices,
                install   : Outcomes,
                deps      : {<< >>},
                passed    : {"none"},
                result    : {"none"} ]

DepsFrame == UNCHANGED <<SetupVars, fm, am, fd, jm, pj, fa, cf>>

\* lines 99-111: the dependency list is assembled
sd_required_deps ==
    /\ sd.pc = "get_system_info"
    /\ sd' = [sd EXCEPT !.pc = "install_dependencies",
                        !.deps = required_deps(sd.os, sd.platforms)]
    /\ DepsFrame

\* lines 113-121: install_dependencies is called with the list; its result is
\* the result of the phase
sd_install_dependencies ==
    /\ sd.pc = "install_dependencies"
    /\ sd' = [sd EXCEPT !.pc = "done", !.passed = sd.deps, !.result = sd.install]
    /\ DepsFrame

NextDeps ==
    \/ sd_required_deps
    \/ sd_install_dependencies

SpecDeps == InitDeps /\ [][NextDeps]_vars


----------------------------------------------------------------------------
(* android_manager.py: AndroidManager.verify_installation, called on its   *)
(* own over an SDK home whose contents are drawn in the initial state      *)

\* a directory listed with glob: absent, present and empty, present with
\* entries none of which matches the pattern, present with a matching entry
DirStates == {"missing", "empty", "other", "match"}

\* the SDK home: which tool files exist, what the platforms and build-tools
\* directories hold, and how `sdkmanager --list` ends when it is run
SdkHomes ==
    [ sdkmanager      : BOOLEAN,
      adb             : BOOLEAN,
      fastboot        : BOOLEAN,
      platforms       : DirStates,
      build_tools     : DirStates \ {"other"},
      sdkmanager_list : CommandEnds ]

\* lines 419-432: sdkmanager, adb and fastboot must all exist
essential_tools(home) == home.sdkmanager /\ home.adb /\ home.fastboot

\* lines 435-445: platforms/ exists and glob("android-*") is not empty
platforms_installed(home) == home.platforms = "match"

\* lines 448-458: build-tools/ exists and glob("*") is not empty
build_tools_installed(home) == home.build_tools = "match"

\* lines 461-476: the sdkmanager command is tried only when the file exists;
\* a non-zero exit and an exception (the 30 s timeout) both count against
sdkmanager_working(home) == home.sdkmanager => home.sdkmanager_list = "0"

InitAndroid ==
    /\ SetupIdle
    /\ fm = Idle /\ sd = Idle /\ fd = Idle /\ jm = Idle /\ pj = Idle
    /\ fa = Idle /\ cf = Idle
    /\ \E home \in SdkHomes :
           am = [ pc |-> "essential_tools", home |-> home, all_good |-> TRUE,
                  commands |-> << >>, result |-> "none" ]

AndroidFrame == UNCHANGED <<SetupVars, fm, sd, fd, jm, pj, fa, cf>>

AmStep(from, to, ok) ==
    /\ am.pc = from
    /\ am' = [am EXCEPT !.pc = to, !.all_good = am.all_good /\ ok]
    /\ AndroidFrame

am_essential_tools ==
    AmStep("essential_tools", "platforms", essential_tools(am.home))

am_platforms ==
    AmStep("platforms", "build_tools", platforms_installed(am.home))

am_build_tools ==
    AmStep("build_tools", "test_sdkmanager", build_tools_installed(am.home))

am_test_sdkmanager ==
    /\ am.pc = "test_sdkmanager"
    /\ am' = [am EXCEPT !.pc = "return",
                        !.all_good = am.all_good /\ sdkmanager_working(am.home),
                        !.commands = IF am.home.sdkmanager
                                     THEN Append(am.commands, "sdkmanager --list")
                                     ELSE am.commands]
    /\ AndroidFrame

\* line 483: return all_good
am_return ==
    /\ am.pc = "return"
    /\ am' = [am EXCEPT !.pc = "done",
                        !.result = IF am.all_good THEN "True" ELSE "False"]
    /\ AndroidFrame

NextAndroid ==
    \/ am_essential_tools
    \/ am_platforms
    \/ am_build_tools
    \/ am_test_sdkmanager
    \/ am_return

SpecAndroid == InitAndroid /\ [][NextAndroid]_vars


----------------------------------------------------------------------------
(* cli.py: the fetch-docs command, and                                     *)
(* DocumentationManager.fetch_all_documentation / _fetch_document          *)

\* _fetch_document tries with SSL verification and, when that attempt raises,
\* once more without; the first attempt that does not raise decides
fetch_document(first, second) == IF first = "error" THEN second ELSE first

\* the task names in the order the tasks are created: dict order, filtered
task_names(c) == SelectSeq(doc_sources, LAMBDA n : n \in requested_sources(c))

InitDocs ==
    /\ SetupIdle
    /\ fm = Idle /\ sd = Idle /\ am = Idle /\ jm = Idle /\ pj = Idle
    /\ fa = Idle /\ cf = Idle
    /\ \E no_agents \in BOOLEAN, kdf_docs \in BOOLEAN :
           fd = [ pc |-> "fetch_docs", no_agents |-> no_agents,
                  kdf_docs |-> kdf_docs, tasks |-> << >>,
                  response |-> << >>, documents |-> {}, saved |-> "none" ]

DocsFrame == UNCHANGED <<SetupVars, fm, sd, am, jm, pj, fa, cf>>

\* cli.py 111-113 and fetch_all_documentation 42-55: the two flags are put
\* into the configuration and one task is created per requested source
fd_fetch_docs ==
    /\ fd.pc = "fetch_docs"
    /\ LET c == [ should_fetch_agents_docs  |-> ~fd.no_agents,
                  should_fetch_kdf_api_docs |-> fd.kdf_docs ]
       IN fd' = [fd EXCEPT !.pc = "gather",
                           !.tasks = task_names(c),
                           !.response = [n \in ListElems(task_names(c)) |-> "pending"]]
    /\ DocsFrame

\* one fetch task runs to its end; the tasks end in any order
fd_fetch_document ==
    /\ fd.pc = "gather"
    /\ \E n \in DOMAIN fd.response, first \in FetchOutcomes, second \in FetchOutcomes :
           /\ fd.response[n] = "pending"
           /\ fd' = [fd EXCEPT !.response[n] = fetch_document(first, second)]
    /\ DocsFrame

\* lines 57-71: gather returns once every task has ended; the results are
\* walked in task order and the truthy ones are put into the dict
fd_process_results ==
    /\ fd.pc = "gather"
    /\ \A n \in DOMAIN fd.response : fd.response[n] # "pending"
    /\ fd' = [fd EXCEPT !.pc = "fetched",
                        !.documents = fetched_documents(fd.response)]
    /\ DocsFrame

\* cli.py 122-124: nothing fetched, nothing saved
fd_no_documentation ==
    /\ fd.pc = "fetched"
    /\ fd.documents = {}
    /\ fd' = [fd EXCEPT !.pc = "done"]
    /\ DocsFrame

\* cli.py 126-128: save_documentation returns True or False
fd_save_documentation ==
    /\ fd.pc = "fetched"
    /\ fd.documents # {}
    /\ \E ok \in {"True", "False"} : fd' = [fd EXCEPT !.pc = "done", !.saved = ok]
    /\ DocsFrame

NextDocs ==
    \/ fd_fetch_docs
    \/ fd_fetch_document
    \/ fd_process_results
    \/ fd_no_documentation
    \/ fd_save_documentation

SpecDocs == InitDocs /\ [][NextDocs]_vars


----------------------------------------------------------------------------
(* setup.py: _setup_project followed by the end of run_setup, on its own;  *)
(* flutter_manager.py: build_project. The project directory, the           *)
(* platforms and the ends of the commands are the environment.             *)

\* config.platforms values tried for the builds; "fuchsia" is a name
\* build_project has no branch for
BuildPlatformChoices ==
    { << >>, <<"web">>, <<"android">>, <<"web", "android">>, <<"fuchsia", "web">> }

\* subprocess.run without a timeout ends with an exit status
ExitStatuses == {"0", "1"}

Ran(cmd, e) == <<cmd, e>>

\* build_project's command for a platform it has a branch for
build_command(platform) ==
    CASE platform = "web"     -> "fvm flutter build web --profile"
      [] platform = "android" -> "fvm flutter build apk"
      [] platform = "linux"   -> "fvm flutter build linux"
      [] platform = "macos"   -> "fvm flutter build macos"
      [] platform = "windows" -> "fvm flutter build windows"
      [] platform = "ios"     -> "fvm flutter build ios --no-codesign"

SupportedPlatforms == {"web", "android", "linux", "macos", "windows", "ios"}

InitProject ==
    /\ SetupIdle
    /\ fm = Idle /\ sd = Idle /\ am = Idle /\ fd = Idle /\ jm = Idle
    /\ fa = Idle /\ cf = Idle
    /\ \E pubspec \in BOOLEAN, installed \in BOOLEAN, platforms \in BuildPlatformChoices :
           pj = [ pc |-> "pubspec", pubspec |-> pubspec,
                  flutter_installed |-> installed, platforms |-> platforms,
                  built |-> << >>, commands |-> << >>, build_success |-> "none",
                  result |-> "none", summary |-> "none", run_setup |-> "none" ]

ProjectFrame == UNCHANGED <<SetupVars, fm, sd, am, fd, jm, fa, cf>>

\* _setup_project returns r to run_setup
PjReturn(rec, r) == [rec EXCEPT !.pc = "returned", !.result = r]

\* lines 330-333: without pubspec.yaml the phase is skipped with True
pj_pubspec ==
    /\ pj.pc = "pubspec"
    /\ pj' = IF pj.pubspec THEN [pj EXCEPT !.pc = "pub_get"]
                           ELSE PjReturn(pj, "True")
    /\ ProjectFrame

\* lines 338-347: `fvm flutter pub get`, check=False and no timeout
pj_pub_get ==
    /\ pj.pc = "pub_get"
    /\ \E e \in ExitStatuses :
           pj' = [pj EXCEPT !.pc = "build_runner",
                            !.commands = Append(pj.commands, Ran("pub get", e))]
    /\ ProjectFrame

\* lines 351-361 and 375-377: build_runner with timeout=120; run_command
\* re-raises TimeoutExpired, which the `except Exception` of _setup_project
\* turns into False. Line 364: no platforms, no build.
pj_build_runner ==
    /\ pj.pc = "build_runner"
    /\ \E e \in CommandEnds :
         LET rec == [pj EXCEPT !.commands = Append(pj.commands, Ran("build_runner", e))]
         IN  pj' = IF e = "timeout" THEN PjReturn(rec, "False")
                   ELSE IF pj.platforms = << >> THEN PjReturn(rec, "True")
                   ELSE [rec EXCEPT !.pc = "build_project"]
    /\ ProjectFrame


\* build_project 467-471: without an installed Flutter nothing is built and
\* build_project returns False, which _setup_project only reports
pj_build_project ==
    /\ pj.pc = "build_project"
    /\ pj' = IF pj.flutter_installed
             THEN [pj EXCEPT !.pc = "build_platform", !.build_success = "True"]
             ELSE PjReturn([pj EXCEPT !.build_success = "False"], "True")
    /\ ProjectFrame

\* the loop of build_project has handled one more platform; after the last
\* one build_project returns and _setup_project returns True (line 373)
PlatformDone(rec, platform, ok) ==
    LET r == [rec EXCEPT !.built = Append(rec.built, platform),
                         !.build_success = IF ok THEN rec.build_success ELSE "False"]
    IN  IF Len(r.built) = Len(r.platforms) THEN PjReturn(r, "True") ELSE r

\* build_project 473-554, one iteration: the platform's build command runs
\* with a timeout and check=False; a non-zero status of the web profile build
\* is followed by the plain web build; a timeout is caught inside the loop
pj_build_platform ==
    /\ pj.pc = "build_platform"
    /\ LET platform == pj.platforms[Len(pj.built) + 1] IN
       IF platform \notin SupportedPlatforms
       THEN pj' = PlatformDone(pj, platform, TRUE)
       ELSE \E e \in CommandEnds :
              LET first == [pj EXCEPT !.commands =
                               Append(pj.commands, Ran(build_command(platform), e))]
              IN  IF platform = "web" /\ e = "1"
                  THEN \E again \in CommandEnds :
                         pj' = PlatformDone(
                                 [first EXCEPT !.commands =
                                     Append(first.commands, Ran("fvm flutter build web", again))],
                                 platform, again = "0")
                  ELSE pj' = PlatformDone(first, platform, e = "0")
    /\ ProjectFrame

\* run_setup 84-86: `if not await self._setup_project(): return False`
pj_run_setup_tests_result ==
    /\ pj.pc = "returned"
    /\ pj' = IF run_setup_on("project", pj.result) = "continue"
             THEN [pj EXCEPT !.pc = "summary"]
             ELSE [pj EXCEPT !.pc = "done",
                             !.run_setup = run_setup_on("project", pj.result)]
    /\ ProjectFrame

\* run_setup 90-95: the completion summary, then `return True`; an exception
\* raised by the summary is caught and makes run_setup return False
pj_print_completion_summary ==
    /\ pj.pc = "summary"
    /\ \/ pj' = [pj EXCEPT !.pc = "done", !.summary = "printed", !.run_setup = "True"]
       \/ pj' = [pj EXCEPT !.pc = "done", !.summary = "raised", !.run_setup = "False"]
    /\ ProjectFrame

NextProject ==
    \/ pj_pubspec
    \/ pj_pub_get
    \/ pj_build_runner
    \/ pj_build_project
    \/ pj_build_platform
    \/ pj_run_setup_tests_result
    \/ pj_print_completion_summary

SpecProject == InitProject /\ [][NextProject]_vars


----------------------------------------------------------------------------
(* executor.py: JobManager. run_job is called for each job name at most    *)
(* once, at any moment and with any dependency list; the job functions are *)
(* coroutines that end by returning or by raising.                         *)

JobNames == {"a", "b", "c"}

\* the dependency lists tried: up to two distinct names, the job's own name
\* and names of jobs that are never started included
DepLists ==
    {<< >>} \cup { <<x>> : x \in JobNames }
            \cup ({ <<x, y>> : x \in JobNames, y \in JobNames } \ { <<x, x>> : x \in JobNames })

\* a variant of dependency_pending that waits for the dependency to fail
dependency_pending_until_failed(dep, completed, failed) == dep \notin failed

\* the condition of job_wrapper's `while dep not in self.completed and dep
\* not in self.failed:`
dependency_pending(dep, completed, failed) ==
    dep \notin completed /\ dep \notin failed

\* a variant of wait_step that does not look at the two sets
wait_step_no_wait(dep, completed, failed) == "proceed"

\* one evaluation of the while condition and, when it holds, of the loop
\* body: `if dep in self.failed: raise RuntimeError(...)`, then the sleep
wait_step(dep, completed, failed) ==
    IF dependency_pending(dep, completed, failed)
    THEN IF dep \in failed THEN "raise" ELSE "sleep"
    ELSE "proceed"

InitJobs ==
    /\ SetupIdle
    /\ fm = Idle /\ sd = Idle /\ am = Idle /\ fd = Idle /\ pj = Idle
    /\ fa = Idle /\ cf = Idle
    /\ jm = [ pc           |-> "event_loop",
              dependencies |-> [j \in JobNames |-> << >>],
              state        |-> [j \in JobNames |-> "unstarted"],
              waiting_for  |-> [j \in JobNames |-> 1],
              at_invoke    |-> [j \in JobNames |-> [completed |-> {}, failed |-> {}]],
              completed    |-> {},
              failed       |-> {} ]

JobsFrame == UNCHANGED <<SetupVars, fm, sd, am, fd, pj, fa, cf>>

\* run_job: add_job records the dependencies and the wrapper's task is created
run_job(j) ==
    /\ jm.state[j] = "unstarted"
    /\ \E deps \in DepLists :
           jm' = [jm EXCEPT !.dependencies[j] = deps, !.state[j] = "waiting"]
    /\ JobsFrame

\* job_wrapper, the wait for the dependency it has reached: it goes on to the
\* next dependency, raises, or sleeps for 0.1 s and tests again
job_wait(j) ==
    /\ jm.state[j] = "waiting"
    /\ jm.waiting_for[j] <= Len(jm.dependencies[j])
    /\ LET w == wait_step(jm.dependencies[j][jm.waiting_for[j]],
                          jm.completed, jm.failed)
       IN  CASE w = "proceed" ->
                  jm' = [jm EXCEPT !.waiting_for[j] = jm.waiting_for[j] + 1]
             [] w = "raise" ->
                  jm' = [jm EXCEPT !.state[j] = "dependency_failed"]
             [] w = "sleep" -> UNCHANGED jm
    /\ JobsFrame

\* job_wrapper after the loop: the job function is invoked
job_invoke(j) ==
    /\ jm.state[j] = "waiting"
    /\ jm.waiting_for[j] > Len(jm.dependencies[j])
    /\ jm' = [jm EXCEPT !.state[j] = "running",
                        !.at_invoke[j] =
                            [ completed |-> ListElems(jm.dependencies[j]) \cap jm.completed,
                              failed    |-> ListElems(jm.dependencies[j]) \cap jm.failed ]]
    /\ JobsFrame

\* the job function returned: self.completed.add(name)
job_returns(j) ==
    /\ jm.state[j] = "running"
    /\ jm' = [jm EXCEPT !.state[j] = "completed",
                        !.completed = jm.completed \cup {j}]
    /\ JobsFrame

\* the job function raised: self.failed.add(name), and the exception is raised again
job_raises(j) ==
    /\ jm.state[j] = "running"
    /\ jm' = [jm EXCEPT !.state[j] = "failed",
                        !.failed = jm.failed \cup {j}]
    /\ JobsFrame

JobStep(j) == job_wait(j) \/ job_invoke(j) \/ job_returns(j) \/ job_raises(j)

NextJobs ==
    \/ \E j \in JobNames : run_job(j)
    \/ \E j \in JobNames : job_wait(j)
    \/ \E j \in JobNames : job_invoke(j)
    \/ \E j \in JobNames : job_returns(j)
    \/ \E j \in JobNames : job_raises(j)

SpecJobs == InitJobs /\ [][NextJobs]_vars

\* the wrapper polls every 0.1 s and the job functions end: a step of a
\* started job that stays possible is taken
SpecJobsFair == SpecJobs /\ \A j \in JobNames : WF_vars(JobStep(j))


----------------------------------------------------------------------------
(* setup.py: _setup_flutter_and_android and run_setup's use of its result, *)
(* run once with parallel_execution enabled and once with it disabled on   *)
(* the same mocked managers (tests/unit/test_setup.py builds both set-ups). *)

\* what the phases after phase 3 make run_setup return when it gets to them
LaterOutcomes == {"True", "False"}

NotRun == [invoked |-> << >>, tasks |-> [t \in TaskNames |-> "none"],
           result |-> "none", run_setup |-> "none"]

InitModes ==
    /\ SetupIdle
    /\ fm = Idle /\ sd = Idle /\ am = Idle /\ fd = Idle /\ jm = Idle /\ pj = Idle
    /\ cf = Idle
    /\ \E mock \in [ManagerOps -> Outcomes], sdk \in BOOLEAN,
          platforms \in PlatformChoices, later \in LaterOutcomes :
           fa = [ pc |-> <<"parallel", "flutter_install">>,
                  mock |-> mock, install_android_sdk |-> sdk,
                  platforms |-> platforms, later |-> later,
                  par |-> NotRun, seq |-> NotRun ]

ModesFrame == UNCHANGED <<SetupVars, fm, sd, am, fd, jm, pj, cf>>

\* the mocked manager operation op is called
Invoke(run, op) == [run EXCEPT !.invoked = Append(run.invoked, op)]

\* _setup_flutter_and_android produced r (a value, or "Raise"): run_setup
\* returns False on False and on an exception, else what the later phases give
PhaseReturns(run, r, later) ==
    [run EXCEPT !.result = r,
                !.run_setup = IF run_setup_on(P3, r) = "continue"
                              THEN later ELSE run_setup_on(P3, r)]

\* parallel mode, setup_flutter up to the return of install_flutter
fa_flutter_task_install ==
    /\ fa.pc = <<"parallel", "flutter_install">>
    /\ LET run == Invoke(fa.par, "install_flutter")
           a   == setup_flutter_after_install(fa.mock["install_flutter"])
       IN  fa' = IF a = "configure"
                 THEN [fa EXCEPT !.par = run, !.pc = <<"parallel", "flutter_configure">>]
                 ELSE [fa EXCEPT !.par = [run EXCEPT !.tasks["flutter"] = a],
                                 !.pc = <<"parallel", "android">>]
    /\ ModesFrame

\* parallel mode, setup_flutter from configure_flutter to its return
fa_flutter_task_configure ==
    /\ fa.pc = <<"parallel", "flutter_configure">>
    /\ fa' = [fa EXCEPT
               !.par = [Invoke(fa.par, "configure_flutter") EXCEPT
                          !.tasks["flutter"] =
                              setup_flutter_after_configure(fa.mock["configure_flutter"])],
               !.pc = <<"parallel", "android">>]
    /\ ModesFrame

\* parallel mode, setup_android: it is second in the ready queue and runs
\* once setup_flutter, which never awaits, has ended
fa_android_task ==
    /\ fa.pc = <<"parallel", "android">>
    /\ fa' = [fa EXCEPT
               !.par = IF AndroidRequested(fa)
                       THEN [Invoke(fa.par, "install_android_sdk") EXCEPT
                               !.tasks["android"] =
                                   setup_android_after_install(fa.mock["install_android_sdk"])]
                       ELSE [fa.par EXCEPT !.tasks["android"] = "True"],
               !.pc = <<"parallel", "gathered">>]
    /\ ModesFrame

\* parallel mode, lines 191-205, and run_setup's test of the phase result;
\* the second run, with parallel_execution disabled, starts
fa_gathered ==
    /\ fa.pc = <<"parallel", "gathered">>
    /\ fa' = [fa EXCEPT
               !.par = PhaseReturns(fa.par, parallel_phase_result(fa.par.tasks), fa.later),
               !.pc = <<"sequential", "install_flutter">>]
    /\ ModesFrame


BothDone == <<"both", "done">>

\* sequential mode: _setup_flutter_sequential, install part
fa_sequential_install_flutter ==
    /\ fa.pc = <<"sequential", "install_flutter">>
    /\ LET run == Invoke(fa.seq, "install_flutter")
           a   == setup_flutter_sequential_after_install(fa.mock["install_flutter"])
       IN  fa' = IF a = "configure"
                 THEN [fa EXCEPT !.seq = run, !.pc = <<"sequential", "configure_flutter">>]
                 ELSE [fa EXCEPT !.seq = PhaseReturns(run, a, fa.later), !.pc = BothDone]
    /\ ModesFrame

\* sequential mode: _setup_flutter_sequential, configure part
fa_sequential_configure_flutter ==
    /\ fa.pc = <<"sequential", "configure_flutter">>
    /\ LET run == Invoke(fa.seq, "configure_flutter")
           a   == setup_flutter_sequential_after_configure(fa.mock["configure_flutter"])
       IN  fa' = IF a = "True"
                 THEN [fa EXCEPT !.seq = run, !.pc = <<"sequential", "android">>]
                 ELSE [fa EXCEPT !.seq = PhaseReturns(run, a, fa.later), !.pc = BothDone]
    /\ ModesFrame

\* sequential mode: _setup_android_sequential and lines 212-215
fa_sequential_android ==
    /\ fa.pc = <<"sequential", "android">>
    /\ fa' = [fa EXCEPT
               !.seq = IF AndroidRequested(fa)
                       THEN PhaseReturns(Invoke(fa.seq, "install_android_sdk"),
                                sequential_after_android(fa.mock["install_android_sdk"]),
                                fa.later)
                       ELSE PhaseReturns(fa.seq, sequential_after_android("True"), fa.later),
               !.pc = BothDone]
    /\ ModesFrame

NextModes ==
    \/ fa_flutter_task_install
    \/ fa_flutter_task_configure
    \/ fa_android_task
    \/ fa_gathered
    \/ fa_sequential_install_flutter
    \/ fa_sequential_configure_flutter
    \/ fa_sequential_android

SpecModes == InitModes /\ [][NextModes]_vars


----------------------------------------------------------------------------
(* android_manager.py: AndroidManager.setup_environment_variables, called  *)
(* on its own. PATH is the list of its colon-separated entries.            *)

ANDROID_HOME_DIR == "sdk"

\* potential_paths, in the order of the list
potential_paths ==
    << "sdk/cmdline-tools/latest/bin", "sdk/platform-tools", "sdk/tools/bin" >>

\* PATH values at the call: without SDK entries, with one of them, with an
\* entry whose name merely begins like one of them, with all of them
InitialPaths ==
    { << "/usr/bin" >>,
      << "sdk/platform-tools", "/usr/bin" >>,
      << "sdk/platform-tools.old", "/usr/bin" >>,
      << "sdk/cmdline-tools/latest/bin", "sdk/platform-tools", "sdk/tools/bin",
         "/usr/bin" >> }

\* Python's `path in current_path` on the PATH string: a substring test
path_in(path, current_path) ==
    \E i \in 1..Len(current_path) :
        \/ current_path[i] = path
        \/ path = "sdk/platform-tools" /\ current_path[i] = "sdk/platform-tools.old"

InitAndroidEnv ==
    /\ SetupIdle
    /\ fm = Idle /\ sd = Idle /\ fd = Idle /\ jm = Idle /\ pj = Idle
    /\ fa = Idle /\ cf = Idle
    /\ \E exists \in [ListElems(potential_paths) -> BOOLEAN],
          path \in InitialPaths, old \in {"unset", "old-sdk"} :
           am = [ pc |-> "paths_to_add", exists |-> exists,
                  environ |-> [ANDROID_HOME |-> old, ANDROID_SDK_ROOT |-> old,
                               PATH |-> path],
                  paths_to_add |-> << >>, current_path |-> << >>, i |-> 1,
                  profile |-> {}, result |-> "none" ]

\* lines 259-269: only existing directories are kept
am_env_paths_to_add ==
    /\ am.pc = "paths_to_add"
    /\ am' = [am EXCEPT !.pc = "set_environ",
                        !.paths_to_add =
                            SelectSeq(potential_paths, LAMBDA p : am.exists[p])]
    /\ AndroidFrame

\* lines 273-275: os.environ[var_name] = var_value
am_env_set_environ ==
    /\ am.pc = "set_environ"
    /\ am' = [am EXCEPT !.pc = "persist_vars",
                        !.environ.ANDROID_HOME = ANDROID_HOME_DIR,
                        !.environ.ANDROID_SDK_ROOT = ANDROID_HOME_DIR]
    /\ AndroidFrame

\* lines 278-281: add_environment_variable for both names; a False result is
\* only reported. Line 284: current_path is read once, before the loop
am_env_persist_vars ==
    /\ am.pc = "persist_vars"
    /\ \E done \in SUBSET {"ANDROID_HOME", "ANDROID_SDK_ROOT"} :
           am' = [am EXCEPT !.pc = IF am.paths_to_add = << >>
                                   THEN "persist_paths" ELSE "add_paths",
                            !.profile = done,
                            !.current_path = am.environ.PATH]
    /\ AndroidFrame

\* lines 285-288, one iteration: the new PATH is built from the path and
\* from current_path as it was read before the loop
am_env_add_path ==
    /\ am.pc = "add_paths"
    /\ LET path == am.paths_to_add[am.i] IN
       am' = [am EXCEPT
                !.environ.PATH = IF path_in(path, am.current_path)
                                 THEN am.environ.PATH
                                 ELSE <<path>> \o am.current_path,
                !.i = am.i + 1,
                !.pc = IF am.i = Len(am.paths_to_add)
                       THEN "persist_paths" ELSE "add_paths"]
    /\ AndroidFrame

\* lines 291-297: add_to_path for each path, a False result is only
\* reported; then `return True`
am_env_persist_paths ==
    /\ am.pc = "persist_paths"
    /\ \E done \in SUBSET ListElems(am.paths_to_add) :
           am' = [am EXCEPT !.pc = "done", !.profile = am.profile \cup done,
                            !.result = "True"]
    /\ AndroidFrame

NextAndroidEnv ==
    \/ am_env_paths_to_add
    \/ am_env_set_environ
    \/ am_env_persist_vars
    \/ am_env_add_path
    \/ am_env_persist_paths

SpecAndroidEnv == InitAndroidEnv /\ [][NextAndroidEnv]_vars


----------------------------------------------------------------------------
(* android_manager.py: AndroidManager.install_android_sdk, called on its   *)
(* own over an SDK home drawn in the initial state; `called` lists the     *)
(* helper methods it has called                                            *)

\* a variant of is_android_sdk_installed that looks for adb instead
is_android_sdk_installed_by_adb(home) == home.adb

\* lines 57-63: android_home, cmdline-tools/latest and the sdkmanager file
\* below them all exist
is_android_sdk_installed(home) == home.sdkmanager

\* the value verify_installation returns over a given SDK home
verify_installation(home) ==
    /\ essential_tools(home)
    /\ platforms_installed(home)
    /\ build_tools_installed(home)
    /\ sdkmanager_working(home)

PyBool(b) == IF b THEN "True" ELSE "False"

InitAndroidInstall ==
    /\ SetupIdle
    /\ fm = Idle /\ sd = Idle /\ fd = Idle /\ jm = Idle /\ pj = Idle
    /\ fa = Idle /\ cf = Idle
    /\ \E home \in SdkHomes :
           am = [ pc |-> "is_android_sdk_installed", entry |-> home,
                  home |-> home, called |-> << >>, result |-> "none" ]

\* helper `name` has been called
AmCalled(name) == [am EXCEPT !.called = Append(am.called, name)]

\* a helper returned ok: the installation goes on at `next`, or ends with False
AmContinue(rec, ok, next) ==
    IF ok THEN [rec EXCEPT !.pc = next]
          ELSE [rec EXCEPT !.pc = "done", !.result = "False"]

\* lines 491-494
am_install_check_installed ==
    /\ am.pc = "is_android_sdk_installed"
    /\ am' = [am EXCEPT !.pc = IF is_android_sdk_installed(am.home)
                               THEN "verify_installation"
                               ELSE "setup_android_directories"]
    /\ AndroidFrame

\* lines 497-499
am_install_directories ==
    /\ am.pc = "setup_android_directories"
    /\ \E ok \in BOOLEAN :
           am' = AmContinue(AmCalled("setup_android_directories"), ok,
                            "install_system_dependencies")
    /\ AndroidFrame

\* lines 502-503: a failure is only reported
am_install_system_dependencies ==
    /\ am.pc = "install_system_dependencies"
    /\ am' = [AmCalled("install_system_dependencies") EXCEPT !.pc = "java"]
    /\ AndroidFrame

\* lines 506-512: install_java is called when no Java is found
am_install_java ==
    /\ am.pc = "java"
    /\ \/ am' = [am EXCEPT !.pc = "download_and_extract_cmdline_tools"]
       \/ \E ok \in BOOLEAN :
              am' = AmContinue(AmCalled("install_java"), ok,
                               "download_and_extract_cmdline_tools")
    /\ AndroidFrame


\* lines 515-516: on success the sdkmanager file is in place
am_install_download ==
    /\ am.pc = "download_and_extract_cmdline_tools"
    /\ \E ok \in BOOLEAN :
           am' = AmContinue(
                   [AmCalled("download_and_extract_cmdline_tools") EXCEPT
                      !.home.sdkmanager = ok],
                   ok, "setup_environment_variables")
    /\ AndroidFrame

\* lines 519-521
am_install_environment ==
    /\ am.pc = "setup_environment_variables"
    /\ \E ok \in BOOLEAN :
           am' = AmContinue(AmCalled("setup_environment_variables"), ok,
                            "install_sdk_packages")
    /\ AndroidFrame

\* lines 524-525: each essential package is installed or not; whatever
\* install_sdk_packages returns, the verification follows
am_install_sdk_packages ==
    /\ am.pc = "install_sdk_packages"
    /\ \E tools \in BOOLEAN, platform \in BOOLEAN, build \in BOOLEAN :
           am' = [AmCalled("install_sdk_packages") EXCEPT
                    !.pc = "verify_installation",
                    !.home.adb = am.home.adb \/ tools,
                    !.home.fastboot = am.home.fastboot \/ tools,
                    !.home.platforms = IF platform THEN "match" ELSE am.home.platforms,
                    !.home.build_tools = IF build THEN "match" ELSE am.home.build_tools]
    /\ AndroidFrame

\* line 494 and lines 528-535: the result of verify_installation is returned
am_install_verify ==
    /\ am.pc = "verify_installation"
    /\ am' = [AmCalled("verify_installation") EXCEPT
                !.pc = "done",
                !.result = PyBool(verify_installation(am.home))]
    /\ AndroidFrame

NextAndroidInstall ==
    \/ am_install_check_installed
    \/ am_install_directories
    \/ am_install_system_dependencies
    \/ am_install_java
    \/ am_install_download
    \/ am_install_environment
    \/ am_install_sdk_packages
    \/ am_install_verify

SpecAndroidInstall == InitAndroidInstall /\ [][NextAndroidInstall]_vars


----------------------------------------------------------------------------
(* cli.py / config.py: the `setup` command from the command line to the    *)
(* finished configuration, with every setting that has both an environment *)
(* variable and a command-line option                                      *)

Absent == "absent"
Unset  == "unset"

\* the process environment: each variable unset or set to a value that is
\* not the default
Environments ==
    [ PLATFORMS                 : {Unset, "android", "web, android"},
      PARALLEL_EXECUTION        : {Unset, "false"},
      FETCH_ALL_REMOTE_BRANCHES : {Unset, "False"},
      SHOULD_FETCH_AGENTS_DOCS  : {Unset, "false"},
      SHOULD_FETCH_KDF_API_DOCS : {Unset, "TRUE"},
      FLUTTER_INSTALL_METHOD    : {Unset, "git"} ]

\* the command line: each option absent or passed
CommandLines ==
    [ no_parallel    : BOOLEAN,
      platforms      : {Absent, "web", "linux"},
      no_git_fetch   : BOOLEAN,
      no_docs        : BOOLEAN,
      kdf_docs       : BOOLEAN,
      install_method : {Absent, "git", "precompiled"} ]

\* str.lower() on the values in use
lower(s) ==
    CASE s = "TRUE"  -> "true"
      [] s = "False" -> "false"
      [] OTHER       -> s

\* os.getenv(name, default).lower() == "true"
getenv_is_true(v, default) == lower(IF v = Unset THEN default ELSE v) = "true"

\* [p.strip() for p in s.split(",")]
split_platforms(s) ==
    CASE s = "web"          -> <<"web">>
      [] s = "linux"        -> <<"linux">>
      [] s = "android"      -> <<"android">>
      [] s = "web, android" -> <<"web", "android">>

\* click: an option that is not passed gets its declared default, a flag
\* that is not passed is False
click_options(argv) ==
    [ no_parallel    |-> argv.no_parallel,
      platforms      |-> IF argv.platforms = Absent THEN "web" ELSE argv.platforms,
      no_git_fetch   |-> argv.no_git_fetch,
      no_docs        |-> argv.no_docs,
      kdf_docs       |-> argv.kdf_docs,
      install_method |-> IF argv.install_method = Absent
                         THEN "precompiled" ELSE argv.install_method ]

\* EnvironmentConfig.from_environment, lines 98-123
config_from_environment(e) ==
    [ parallel_execution        |-> getenv_is_true(e.PARALLEL_EXECUTION, "true"),
      flutter_install_method    |-> IF e.FLUTTER_INSTALL_METHOD = Unset
                                    THEN "precompiled" ELSE e.FLUTTER_INSTALL_METHOD,
      fetch_all_remote_branches |-> getenv_is_true(e.FETCH_ALL_REMOTE_BRANCHES, "true"),
      should_fetch_agents_docs  |-> getenv_is_true(e.SHOULD_FETCH_AGENTS_DOCS, "true"),
      should_fetch_kdf_api_docs |-> getenv_is_true(e.SHOULD_FETCH_KDF_API_DOCS, "false"),
      platforms                 |-> IF e.PLATFORMS = Unset
                                    THEN EnvironmentConfig.platforms
                                    ELSE split_platforms(e.PLATFORMS) ]

\* cli.setup, lines 64-72: every assignment is unconditional
setup_overrides(c, o) ==
    [ c EXCEPT !.flutter_install_method    = o.install_method,
               !.parallel_execution        = ~o.no_parallel,
               !.platforms                 = split_platforms(o.platforms),
               !.fetch_all_remote_branches = ~o.no_git_fetch,
               !.should_fetch_agents_docs  = ~o.no_docs,
               !.should_fetch_kdf_api_docs = o.kdf_docs ]


InitConfig ==
    /\ SetupIdle
    /\ fm = Idle /\ sd = Idle /\ am = Idle /\ fd = Idle /\ jm = Idle /\ pj = Idle
    /\ fa = Idle
    /\ \E e \in Environments, argv \in CommandLines :
           cf = [ pc |-> "click", environ |-> e, argv |-> argv,
                  options |-> << >>, config |-> << >> ]

ConfigFrame == UNCHANGED <<SetupVars, fm, sd, am, fd, jm, pj, fa>>

\* click parses the command line and calls setup with the option values
cf_click ==
    /\ cf.pc = "click"
    /\ cf' = [cf EXCEPT !.pc = "from_environment",
                        !.options = click_options(cf.argv)]
    /\ ConfigFrame

\* line 61: config = EnvironmentConfig.from_environment()
cf_from_environment ==
    /\ cf.pc = "from_environment"
    /\ cf' = [cf EXCEPT !.pc = "override",
                        !.config = config_from_environment(cf.environ)]
    /\ ConfigFrame

\* lines 63-72: "Override with command line options"
cf_override ==
    /\ cf.pc = "override"
    /\ cf' = [cf EXCEPT !.pc = "done",
                        !.config = setup_overrides(cf.config, cf.options)]
    /\ ConfigFrame

NextConfig ==
    \/ cf_click
    \/ cf_from_environment
    \/ cf_override

SpecConfig == InitConfig /\ [][NextConfig]_vars

----------------------------------------------------------------------------
(* Properties *)

\* the install-type gating table as the documentation of run_setup states it
GatedFor(p, t) ==
    CASE p = "flutter_and_android" -> t \in {"ALL", "KW", "KDF-SDK"}
      [] p = "environment"         -> t \in {"ALL", "KW"}
      [] p = "project"             -> t \in {"ALL", "KW"}
      [] p = "kdf_dependencies"    -> t \in {"ALL", "KDF", "KDF-SDK"}
      [] OTHER                     -> TRUE

StartedSet == ListElems(started)

LaterPhases == {"environment", "documentation", "kdf_dependencies", "project"}

AndroidWanted ==
    config.install_android_sdk /\ "android" \in ListElems(config.platforms)

\* C1: Flutter failure is fatal. Once install_flutter has returned False,
\* configure_flutter is never invoked, _setup_flutter_and_android can only
\* return False, run_setup returns False as soon as the phase has returned, and
\* none of the later phases (environment, documentation, KDF, project) starts.
C1_FlutterFailureIsFatal ==
    ret["install_flutter"] = "False" =>
        /\ calls["configure_flutter"] = 0
        /\ phase_result[P3] \in {"none", "False"}
        /\ (phase_result[P3] = "False" => run_outcome = "False")
        /\ run_outcome \in {"none", "False", "KeyboardInterrupt"}
        /\ StartedSet \cap LaterPhases = {}
        /\ ~summary_printed

\* C1 witness: parallel mode, install_flutter returned False, the Android task
\* still ran, and run_setup returned False
C1_Witness ==
    /\ config.parallel_execution
    /\ ret["install_flutter"] = "False"
    /\ calls["install_android_sdk"] = 1
    /\ phase_result[P3] = "False"
    /\ run_outcome = "False"

\* C2: Android failure is not fatal. When install_flutter returned True,
\* configure_flutter did not raise and install_android_sdk returned False or
\* raised, the Flutter/Android phase ends with True and run_setup goes on.
C2_AndroidFailureNotFatal ==
    ( /\ ret["install_flutter"] = "True"
      /\ ret["configure_flutter"] \in {"True", "False"}
      /\ ret["install_android_sdk"] \in {"False", "Raise"}
      /\ phase_result[P3] # "none" )
    => /\ phase_result[P3] = "True"
       /\ run_outcome # "False" \/ StartedSet \cap LaterPhases # {}

\* C3: Android setup is skipped when not requested. If install_android_sdk is
\* False or "android" is not among the platforms, install_android_sdk is never
\* invoked and the phase returns True exactly when install_flutter returned
\* True and configure_flutter did not raise.
C3_AndroidSkippedWhenNotRequested ==
    (~config.install_android_sdk \/ "android" \notin ListElems(config.platforms))
    => /\ calls["install_android_sdk"] = 0
       /\ android_thread = "idle"
       /\ ret["install_android_sdk"] = "none"
       /\ (phase_result[P3] # "none" =>
             (phase_result[P3] = "True" <=>
                 (ret["install_flutter"] = "True" /\
                  ret["configure_flutter"] \in {"True", "False"})))

\* C3 witness: Android is enabled but not among the platforms, and the phase
\* returned True after Flutter was installed and configured
C3_Witness ==
    /\ config.install_android_sdk
    /\ "android" \notin ListElems(config.platforms)
    /\ calls["configure_flutter"] = 1
    /\ phase_result[P3] = "True"

C5_AndroidStartsBeforeFlutterFinishes ==
    (config.parallel_execution /\ calls["install_android_sdk"] > 0)
    => flutter_at_android_start # "done"

\* C5, what the code does instead: install_android_sdk never runs while the
\* Flutter task is unfinished
C5_NoOverlap ==
    android_thread = "running" => task_state["flutter"] \in {"none", "done"}

\* C6: the parallel fan-out has no cancellation. When the phase result has been
\* computed in parallel mode, both tasks have finished, install_flutter was
\* invoked, and a requested Android installation was invoked and ran to
\* completion, whatever the Flutter task produced.
C6_NoCancellation ==
    (config.parallel_execution /\ phase_result[P3] # "none")
    => /\ \A t \in TaskNames : task_state[t] = "done" /\ task_result[t] # "none"
       /\ calls["install_flutter"] = 1
       /\ android_thread # "running"
       /\ (AndroidWanted =>
             calls["install_android_sdk"] = 1 /\ android_thread = "finished")

\* C6 witness: the Flutter task raised and the Android installation still ran
\* to completion before the phase result was computed
C6_Witness ==
    /\ config.parallel_execution
    /\ task_result["flutter"] = "Raise"
    /\ android_thread = "finished"
    /\ ret["install_android_sdk"] = "True"
    /\ phase_result[P3] = "False"

\* C7: run_setup never propagates an exception of a phase. Once a phase has
\* been entered asyncio.run cannot end with an Exception; a phase that raised
\* makes run_setup return False; and run_setup returns True only if every
\* enabled phase other than git operations returned True.
C7_NoExceptionEscapes ==
    /\ (started # << >> => run_outcome # "Exception")
    /\ \A p \in Phases : phase_result[p] = "Raise" => run_outcome = "False"
    /\ run_outcome = "True" =>
          \A p \in Phases \ {"git_operations"} :
              GatedFor(p, config.install_type) => phase_result[p] = "True"

\* C7 witness: a manager call of the sequential Flutter/Android phase raised
\* and run_setup returned False
C7_Witness ==
    /\ phase_result[P3] = "Raise"
    /\ ret["configure_flutter"] = "Raise"
    /\ run_outcome = "False"

\* C8: the setup command exits with 0 iff run_setup returned True, with 1 when
\* run_setup returned False or an exception escaped, and with 130 on Ctrl-C.
C8_ExitStatus ==
    /\ (exit_code = << >>) <=> (run_outcome = "none")
    /\ Len(exit_code) <= 1
    /\ exit_code = <<0>> <=> run_outcome = "True"
    /\ run_outcome \in {"False", "Exception"} => exit_code = <<1>>
    /\ run_outcome = "KeyboardInterrupt" => exit_code = <<130>>

\* C8 witness: the run was interrupted during the documentation phase
C8_Witness ==
    /\ run_outcome = "KeyboardInterrupt"
    /\ fetch_started # {}
    /\ exit_code = <<130>>

\* C9: phases are gated by install type. A phase is entered only if the
\* install type enables it, and a run that returned True has entered and
\* finished exactly the phases the install type enables.
C9_PhasesGatedByInstallType ==
    /\ \A p \in StartedSet : GatedFor(p, config.install_type)
    /\ run_outcome = "True" =>
          \A p \in Phases :
              GatedFor(p, config.install_type) <=>
                  (p \in StartedSet /\ phase_result[p] # "none")

\* C9 witness: a KDF-SDK run returned True having run the Flutter/Android and
\* KDF phases but neither environment nor project
C9_Witness ==
    /\ config.install_type = "KDF-SDK"
    /\ run_outcome = "True"
    /\ started = << "system_dependencies", "git_operations",
                    "flutter_and_android", "documentation", "kdf_dependencies" >>

\* C10: with --no-docs the documentation phase starts no HTTP fetch and writes
\* no documentation file.
\* (Stated for runs without --kdf-docs, where no other flag asks for a fetch.)
C10_NoDocsFetchesNothing ==
    (cli.no_docs /\ ~cli.kdf_docs) => (fetch_started = {} /\ files_written = {})

\* C11: install_flutter fails without enough disk space. When FVM is available
\* and check_disk_space returned False, install_flutter returns False and
\* neither `fvm install` nor `fvm global` is run.
C11_NoInstallWithoutDiskSpace ==
    (fm.pc # "idle" /\ fm.fvm_available /\ fm.disk_ok = "False")
    => /\ fm.pc = "done"
       /\ fm.result = "False"
       /\ \A i \in 1..Len(fm.commands) :
              fm.commands[i] \notin {"fvm install", "fvm global"}

\* C11 witness: df reported one KB less than 1.5 GB and install_flutter
\* returned False
C11_Witness ==
    /\ fm.pc = "done"
    /\ fm.fvm_available
    /\ fm.df.kind = "lines"
    /\ fm.df.available_kb = 1572863
    /\ fm.disk_ok = "False"
    /\ fm.result = "False"

\* C12: when "web" is among the target platforms, the list passed to
\* DependencyManager.install_dependencies by the system-dependencies phase
\* contains nodejs and npm.
C12_NodeDependenciesForWeb ==
    (sd.pc = "done" /\ "web" \in ListElems(sd.platforms))
    => {"nodejs", "npm"} \subseteq ListElems(sd.passed)

\* C13: AndroidManager.verify_installation returns False for an empty SDK
\* home, and returns True whenever sdkmanager exists under
\* cmdline-tools/latest/bin, adb exists under platform-tools, platforms/ has at
\* least one android-* entry and build-tools/ has at least one version.
C13_VerifyInstallation ==
    am.pc = "done" =>
        /\ ( ( ~am.home.sdkmanager /\ ~am.home.adb /\ ~am.home.fastboot
               /\ am.home.platforms = "missing"
               /\ am.home.build_tools = "missing" )
             => am.result = "False" )
        /\ ( ( am.home.sdkmanager /\ am.home.adb
               /\ am.home.platforms = "match"
               /\ am.home.build_tools = "match" )
             => am.result = "True" )

\* C14: fetch_all_documentation returns exactly the documents of the requested
\* sources whose fetch ended with non-empty content: kdf_api only with
\* --kdf-docs, agents only without --no-agents, and a fetch that failed or came
\* back empty removes no other source's entry.
C14_FetchedDocuments ==
    fd.pc \in {"fetched", "done"} =>
        fd.documents =
            { n \in ListElems(doc_sources) :
                /\ (n = "kdf_api" => fd.kdf_docs)
                /\ (n = "agents" => ~fd.no_agents)
                /\ n \in DOMAIN fd.response
                /\ fd.response[n] = "content" }

\* some fetches failed or were empty, others succeeded, agents was skipped
C14_Witness ==
    /\ fd.pc = "fetched"
    /\ fd.no_agents /\ ~fd.kdf_docs
    /\ fd.documents = {"bloc_modeling", "commit_conventions"}
    /\ fd.response["bloc_conventions"] = "error"
    /\ fd.response["bloc_testing"] = "empty"

\* C15: abort is immediate. Once a phase other than the git phase has returned
\* False, run_setup has returned False, that phase is the last one that was
\* started, and the completion summary has not been printed. (The value of
\* the git phase is not tested by run_setup.)
C15_AbortIsImmediate ==
    \A p \in {"system_dependencies", "flutter_and_android", "environment",
              "documentation", "kdf_dependencies", "project"} :
        phase_result[p] = "False" =>
            /\ pc = <<"exit", "done">>
            /\ run_outcome = "False"
            /\ started[Len(started)] = p
            /\ ~summary_printed

C15_Witness ==
    /\ config.install_type = "ALL"
    /\ phase_result["kdf_dependencies"] = "False"
    /\ phase_result["git_operations"] = "True"
    /\ run_outcome = "False"
    /\ exit_code = <<1>>

\* C16: documentation failures are only warnings. Whatever the fetches and the
\* save did (nothing fetched, target directory missing, save failed), the
\* documentation phase does not return False, so run_setup goes on.
C16_DocumentationFailuresAreWarnings ==
    phase_result["documentation"] \in {"none", "True"}

\* C17: failures of the project-setup commands are only warnings. When
\* pubspec.yaml is missing, or whichever way `fvm flutter pub get`,
\* build_runner and the platform builds ended (non-zero exit or timeout),
\* _setup_project returns True and, the summary printing without error,
\* run_setup returns True.
C17_ProjectFailuresAreWarnings ==
    /\ pj.pc \in {"returned", "summary", "done"} => pj.result = "True"
    /\ (pj.pc = "done" /\ pj.summary # "raised") => pj.run_setup = "True"

DependsOn(j) == ListElems(jm.dependencies[j])

JobInvoked(j) == jm.state[j] \in {"running", "completed", "failed"}

JobFinished(j) == jm.state[j] \in {"completed", "failed", "dependency_failed"}

\* C18: a job one of whose dependencies is in the failed set is never invoked,
\* and is not added to the completed set.
C18_FailedDependencyBlocksJob ==
    \A j \in JobNames :
        DependsOn(j) \cap jm.failed # {} => ~JobInvoked(j) /\ j \notin jm.completed

\* C19: a job's function is never invoked while one of its declared
\* dependencies is pending: at the moment of the invocation, and for as long
\* as the function runs, every dependency is in completed or in failed.
C19_NoInvocationWhileDependencyPending ==
    \A j \in JobNames :
        /\ JobInvoked(j) =>
               jm.at_invoke[j].completed \cup jm.at_invoke[j].failed = DependsOn(j)
        /\ JobInvoked(j) => DependsOn(j) \subseteq jm.completed \cup jm.failed

\* job a was held back until both b and c had ended, one of them by failing
C19_Witness ==
    /\ jm.dependencies["a"] = <<"b", "c">>
    /\ jm.state["a"] = "running"
    /\ jm.at_invoke["a"] = [completed |-> {"b"}, failed |-> {"c"}]

\* the jobs a set of jobs waits for, directly or through other jobs
RECURSIVE Closure(_)
Closure(S) ==
    LET T == S \cup UNION { DependsOn(k) : k \in S }
    IN  IF T = S THEN S ELSE Closure(T)

Upstream(j) == Closure(DependsOn(j))

\* every job that j waits for has been started, and neither j nor any of
\* them waits for itself
DependenciesStartedAndAcyclic(j) ==
    \A k \in Upstream(j) \cup {j} :
        jm.state[k] # "unstarted" /\ k \notin Upstream(k)

\* C20 as stated: every job started with run_job eventually finishes (it is
\* added to completed or failed, or it raises), whatever the dependency lists
\* and the order of the run_job calls, the job functions all ending.
C20_EveryStartedJobFinishes ==
    \A j \in JobNames : (jm.state[j] # "unstarted") ~> JobFinished(j)

\* C20 amended: a started job eventually finishes once every job it waits
\* for, directly or through other jobs, has been started with run_job and the
\* dependencies among them have no cycle.
C20_StartedAcyclicJobsFinish ==
    \A j \in JobNames :
        (jm.state[j] # "unstarted" /\ DependenciesStartedAndAcyclic(j))
            ~> JobFinished(j)

\* a chain of three jobs ran to its end: c first, then b, then a
C20_Witness ==
    /\ jm.dependencies = [a |-> <<"b", "c">>, b |-> <<"c">>, c |-> << >>]
    /\ \A j \in JobNames : DependenciesStartedAndAcyclic(j)
    /\ jm.state = [a |-> "completed", b |-> "failed", c |-> "completed"]

\* C21: parallel and sequential modes are equivalent. For every combination
\* of outcomes of install_flutter, configure_flutter and install_android_sdk,
\* run_setup with parallel_execution enabled returns the same value and
\* invokes the same manager operations as with parallel_execution disabled.
C21_ParallelSequentialEquivalent ==
    fa.pc = BothDone =>
        /\ fa.par.run_setup = fa.seq.run_setup
        /\ ListElems(fa.par.invoked) = ListElems(fa.seq.invoked)

\* the PATH string contains the directory's name: as an entry, or as the
\* beginning of a longer entry
PathMentions(path_value, d) ==
    \E i \in 1..Len(path_value) :
        \/ path_value[i] = d
        \/ d = "sdk/platform-tools" /\ path_value[i] = "sdk/platform-tools.old"

\* C22: after setup_environment_variables has returned True, the PATH of the
\* process contains every existing directory among cmdline-tools/latest/bin,
\* platform-tools and tools/bin, and ANDROID_HOME and ANDROID_SDK_ROOT both
\* equal android_home.
C22_EnvironmentAfterSetup ==
    (am.pc = "done" /\ am.result = "True") =>
        /\ \A d \in {"sdk/cmdline-tools/latest/bin", "sdk/platform-tools",
                     "sdk/tools/bin"} :
               am.exists[d] => PathMentions(am.environ.PATH, d)
        /\ am.environ.ANDROID_HOME = "sdk"
        /\ am.environ.ANDROID_SDK_ROOT = "sdk"

\* C23: when the Android SDK is already installed on entry (android_home and
\* cmdline-tools/latest/bin/sdkmanager exist), install_android_sdk calls no
\* helper other than verify_installation, leaves the SDK home as it was, and
\* returns what verify_installation finds there.
C23_AlreadyInstalledOnlyVerifies ==
    (am.pc # "idle" /\ am.entry.sdkmanager) =>
        /\ \A i \in 1..Len(am.called) : am.called[i] = "verify_installation"
        /\ am.home = am.entry
        /\ am.pc = "done" =>
               /\ am.called = <<"verify_installation">>
               /\ am.result =
                    IF /\ am.entry.adb /\ am.entry.fastboot
                       /\ am.entry.platforms = "match"
                       /\ am.entry.build_tools = "match"
                       /\ am.entry.sdkmanager_list = "0"
                    THEN "True" ELSE "False"

C23_Witness ==
    /\ am.pc = "done"
    /\ am.entry.sdkmanager /\ ~am.entry.fastboot
    /\ am.called = <<"verify_installation">>
    /\ am.result = "False"

\* C24: in the setup command a setting given by an environment variable
\* (PLATFORMS, PARALLEL_EXECUTION, FETCH_ALL_REMOTE_BRANCHES,
\* SHOULD_FETCH_AGENTS_DOCS, SHOULD_FETCH_KDF_API_DOCS,
\* FLUTTER_INSTALL_METHOD) is in effect whenever the corresponding option is
\* not on the command line, and the option wins when it is.
C24_EnvironmentUnlessFlag ==
    cf.pc = "done" =>
        /\ IF cf.argv.no_parallel
           THEN ~cf.config.parallel_execution
           ELSE cf.environ.PARALLEL_EXECUTION = "false" => ~cf.config.parallel_execution
        /\ IF cf.argv.no_git_fetch
           THEN ~cf.config.fetch_all_remote_branches
           ELSE cf.environ.FETCH_ALL_REMOTE_BRANCHES = "False"
                    => ~cf.config.fetch_all_remote_branches
        /\ IF cf.argv.no_docs
           THEN ~cf.config.should_fetch_agents_docs
           ELSE cf.environ.SHOULD_FETCH_AGENTS_DOCS = "false"
                    => ~cf.config.should_fetch_agents_docs
        /\ IF cf.argv.kdf_docs
           THEN cf.config.should_fetch_kdf_api_docs
           ELSE cf.environ.SHOULD_FETCH_KDF_API_DOCS = "TRUE"
                    => cf.config.should_fetch_kdf_api_docs
        /\ IF cf.argv.install_method # "absent"
           THEN cf.config.flutter_install_method = cf.argv.install_method
           ELSE cf.environ.FLUTTER_INSTALL_METHOD = "git"
                    => cf.config.flutter_install_method = "git"
        /\ IF cf.argv.platforms # "absent"
           THEN cf.config.platforms = <<cf.argv.platforms>>
           ELSE /\ cf.environ.PLATFORMS = "android"
                    => cf.config.platforms = <<"android">>
                /\ cf.environ.PLATFORMS = "web, android"
                    => cf.config.platforms = <<"web", "android">>

====
